---- MODULE Spec2Model ----
(***************************************************************************)
(* Model of src/functions/eda_utils.py: eight exploratory-data-analysis    *)
(* routines over a pandas DataFrame.  The table is a sequence of rows, a   *)
(* row a function from column name to cell value.  Every routine is one    *)
(* action: it reads df and leaves in `out` what the call printed, which    *)
(* figures it handed to plt.show(), and the exception that ended it.       *)
(*                                                                         *)
(* Numbers are exact: a mean or a percentage is a fraction [num, den], a   *)
(* Pearson coefficient is its sign and its square as a reduced fraction.   *)
(* The binary floating point of numpy is not modelled.  matplotlib and     *)
(* seaborn draw whatever they are handed: a figure in `out.shown` is the   *)
(* data and the decorations the routine passed to them.                    *)
(***************************************************************************)
EXTENDS Integers, Sequences, FiniteSets, TLC

VARIABLES df, out

vars == <<df, out>>

\* ------------------------------------------------------------------ bounds

\* Rows of the tables of SpecPct.
MaxRowsPct == 4
\* Rows of the tables of SpecStat.
MaxRowsStat == 3
\* Rows and columns of the subplot grid normality_check is given.
MaxGrid == 2
\* Rows of the tables of SpecCorr.
MaxRowsCorr == 3
\* Rows of the tables of SpecEda.
MaxRowsEda == 3
\* Rows of the tables of Spec.
MaxRowsAll == 3

\* ------------------------------------------------------------- the table

\* A missing numeric cell (numpy.nan); a rating is a positive number.
NaN == -1

TypeCol == "Type of Traveller"
RatingCol == "Overall Rating"
RecommendedCol == "Recommended"
ClassCol == "Class"
SeatCol == "Seat Comfort"
FoodCol == "Food & Beverages"

\* Every categorical value of the model, in the lexicographic order
\* groupby(sort=True) puts its keys in.
SortedCategories ==
  <<"Business", "Business Class", "Couple Leisure", "Economy Class",
    "Family Leisure", "First Class", "Solo Leisure", "Unknown">>

Row(class, type, rec, rating, seat, food) ==
  (ClassCol :> class) @@ (TypeCol :> type) @@ (RecommendedCol :> rec) @@
  (RatingCol :> rating) @@ (SeatCol :> seat) @@ (FoodCol :> food)

Tables(rows, n) == UNION {[1..k -> rows] : k \in 0..n}

\* df[col]
Column(t, col) == [i \in 1..Len(t) |-> t[i][col]]

\* Series.unique(): the distinct values in order of first appearance.
Unique(s) ==
  LET F[i \in 0..Len(s)] ==
        IF i = 0 THEN <<>>
        ELSE IF \E j \in 1..Len(F[i-1]) : F[i-1][j] = s[i]
             THEN F[i-1] ELSE Append(F[i-1], s[i])
  IN F[Len(s)]

\* A filter that drops the other rows from the source table itself.
BooleanRowFilterInPlace(t, col, v) ==
  [src |-> SelectSeq(t, LAMBDA r : r[col] = v),
   sub |-> SelectSeq(t, LAMBDA r : r[col] = v)]

\* A filter with the comparison inverted.
BooleanRowFilterOthers(t, col, v) ==
  [src |-> t, sub |-> SelectSeq(t, LAMBDA r : r[col] # v)]

\* df[df[col] == v]: a new table of the rows that match; the source table is
\* not written.  `src` is the source table after the operation.
BooleanRowFilter(t, col, v) ==
  [src |-> t, sub |-> SelectSeq(t, LAMBDA r : r[col] = v)]

\* Sum of the non-missing cells of a sequence of numbers.
Sum(s) ==
  LET F[i \in 0..Len(s)] ==
        IF i = 0 THEN 0
        ELSE F[i-1] + (IF s[i] = NaN THEN 0 ELSE s[i])
  IN F[Len(s)]

\* Number of the non-missing cells.
Count(s) == Len(SelectSeq(s, LAMBDA v : v # NaN))

\* ---------------------------------------------------------- plot_percentage

\* df.groupby(splitter): the keys in ascending order.
GroupKeys(t, splitter) ==
  SelectSeq(SortedCategories, LAMBDA k : \E i \in 1..Len(t) : t[i][splitter] = k)

\* The feature cells of one group.
GroupCells(t, splitter, feature, k) ==
  Column(SelectSeq(t, LAMBDA r : r[splitter] = k), feature)

\* The group sums divided by the number of rows of the whole table.
GroupMeanPercentOverTable(t, splitter, feature) ==
  LET keys == GroupKeys(t, splitter)
  IN [i \in 1..Len(keys) |->
        LET cells == GroupCells(t, splitter, feature, keys[i])
        IN [key |-> keys[i], num |-> 100 * Sum(cells), den |-> Len(t)]]

\* df.groupby(splitter)[feature].mean() * 100, one entry per key.
GroupMeanPercent(t, splitter, feature) ==
  LET keys == GroupKeys(t, splitter)
  IN [i \in 1..Len(keys) |->
        LET cells == GroupCells(t, splitter, feature, keys[i])
        IN [key |-> keys[i], num |-> 100 * Sum(cells), den |-> Count(cells)]]

\* a.num/a.den > b.num/b.den
Greater(a, b) == a.num * b.den > b.num * a.den

\* sort_values() with the default ascending=True.
SortValuesAscending(s) ==
  LET Insert(sorted, x) ==
        LET p == Cardinality({j \in 1..Len(sorted) : ~Greater(sorted[j], x)})
        IN SubSeq(sorted, 1, p) \o <<x>> \o SubSeq(sorted, p + 1, Len(sorted))
      F[i \in 0..Len(s)] == IF i = 0 THEN <<>> ELSE Insert(F[i-1], s[i])
  IN F[Len(s)]

\* Series.sort_values(ascending=False): descending; equal values keep their
\* order (numpy sorts a short array by insertion).
SortValuesDescending(s) ==
  LET Insert(sorted, x) ==
        LET p == Cardinality({j \in 1..Len(sorted) : ~Greater(x, sorted[j])})
        IN SubSeq(sorted, 1, p) \o <<x>> \o SubSeq(sorted, p + 1, Len(sorted))
      F[i \in 0..Len(s)] == IF i = 0 THEN <<>> ELSE Insert(F[i-1], s[i])
  IN F[Len(s)]

\* percent of line 134.
Percent(t, splitter, feature) ==
  SortValuesDescending(GroupMeanPercent(t, splitter, feature))

\* f'{height:.1f}': the height in tenths, rounded half to even.
OneDecimal(num, den) ==
  LET q == (10 * num) \div den
      r == 10 * num - q * den
  IN IF 2 * r < den THEN q
     ELSE IF 2 * r > den THEN q + 1
     ELSE IF q % 2 = 0 THEN q ELSE q + 1

\* The colour of bar i: a colour list is cycled over the bars; the default
\* 'skyblue' is the list of that one colour.
BarColour(colour, i) == colour[((i - 1) % Len(colour)) + 1]

\* The bar chart plot_percentage shows.
PlotPercentageFigure(splitter, feature, t, colour) ==
  LET percent == Percent(t, splitter, feature)
  IN [kind |-> "bar",
      title |-> <<"Percentage of", feature, "Reviews by", splitter>>,
      bars |-> [i \in 1..Len(percent) |->
                  [label |-> percent[i].key,
                   num |-> percent[i].num,
                   den |-> percent[i].den,
                   text |-> OneDecimal(percent[i].num, percent[i].den),
                   color |-> BarColour(colour, i)]]]

DefaultColour == <<"skyblue">>

GroupCols == {TypeCol, ClassCol}

plot_percentage ==
  \E splitter \in GroupCols :
    /\ out' = [fn |-> "plot_percentage",
               args |-> [splitter |-> splitter, feature |-> RecommendedCol],
               error |-> "none",
               printed |-> <<>>,
               shown |-> <<PlotPercentageFigure(splitter, RecommendedCol, df,
                                                DefaultColour)>>]
    /\ df' = df

\* ----------------------------------------------------------- traveller_type

\* Series.describe() of one column: count, mean, min and max over the cells
\* that are not missing (std and the quartiles are left out of the model).
Describe(cells) ==
  LET valid == SelectSeq(cells, LAMBDA v : v # NaN)
      n == Len(valid)
  IN [count |-> n,
      mean |-> [num |-> Sum(valid), den |-> n],
      min |-> IF n = 0 THEN NaN
              ELSE CHOOSE m \in {valid[i] : i \in 1..n} :
                     \A i \in 1..n : m <= valid[i],
      max |-> IF n = 0 THEN NaN
              ELSE CHOOSE m \in {valid[i] : i \in 1..n} :
                     \A i \in 1..n : m >= valid[i]]

\* df.groupby(splitter)[feature].describe(): one summary per key.
GroupDescribe(t, splitter, feature) ==
  LET keys == GroupKeys(t, splitter)
  IN [i \in 1..Len(keys) |->
        [key |-> keys[i],
         stats |-> Describe(GroupCells(t, splitter, feature, keys[i]))]]

\* Series.value_counts(): the distinct values with their counts, the largest
\* count first, equal counts in order of first appearance.
ValueCounts(s) ==
  LET u == Unique(s)
  IN SortValuesDescending(
       [i \in 1..Len(u) |->
          [key |-> u[i],
           num |-> Cardinality({j \in 1..Len(s) : s[j] = u[i]}),
           den |-> 1]])

\* traveller_counts / traveller_counts.sum() * 100
TravellerPercentages(t) ==
  LET counts == ValueCounts(Column(t, TypeCol))
  IN [i \in 1..Len(counts) |->
        [key |-> counts[i].key, num |-> 100 * counts[i].num, den |-> Len(t)]]

\* color_map of lines 283-288.
ColorMap ==
  ("Solo Leisure" :> "lightblue") @@ ("Business" :> "red") @@
  ("Family Leisure" :> "green") @@ ("Couple Leisure" :> "orange")

\* color_map.get(traveller)
ColorGet(traveller) ==
  IF traveller \in DOMAIN ColorMap THEN ColorMap[traveller] ELSE "None"

\* The pie colours looked up with color_map.get, which never raises.
ColorsLenient(traveller_types) ==
  [error |-> FALSE,
   list |-> [i \in 1..Len(traveller_types) |-> ColorGet(traveller_types[i])]]

\* colors of line 294: color_map[traveller] raises KeyError for a traveller
\* type that is not a key of the map.
Colors(traveller_types) ==
  [error |-> \E i \in 1..Len(traveller_types) :
               traveller_types[i] \notin DOMAIN ColorMap,
   list |-> [i \in 1..Len(traveller_types) |-> ColorGet(traveller_types[i])]]

\* The group percentages without sort_values.
TypePercentUnsorted(t) == GroupMeanPercent(t, TypeCol, RecommendedCol)

\* type_percent of line 297.
TypePercent(t) == Percent(t, TypeCol, RecommendedCol)

\* colors2 of line 300.
Colors2(type_percent) ==
  [i \in 1..Len(type_percent) |-> ColorGet(type_percent[i].key)]

\* The pie chart of lines 303-306.
PieFigure(split, percentages, colors) ==
  [kind |-> "pie",
   title |-> <<"Distribution of Types of Travellers in", split>>,
   slices |-> [i \in 1..Len(percentages) |->
                 [label |-> percentages[i].key,
                  num |-> percentages[i].num,
                  den |-> percentages[i].den,
                  text |-> OneDecimal(percentages[i].num, percentages[i].den),
                  color |-> colors[i]]]]

\* One call of traveller_type(split, t): what it leaves in `out`.
TravellerTypeCall(split, t) ==
  LET summary_stats == GroupDescribe(t, TypeCol, RatingCol)
      printed == <<<<"Descriptive statistics of Type of traveller in", split>>,
                   summary_stats>>
      traveller_percentages == TravellerPercentages(t)
      traveller_types == [i \in 1..Len(traveller_percentages) |->
                            traveller_percentages[i].key]
      colors == Colors(traveller_types)
      colors2 == Colors2(TypePercent(t))
  IN IF colors.error
     THEN [fn |-> "traveller_type", args |-> [split |-> split],
           error |-> "KeyError", printed |-> printed, shown |-> <<>>]
     ELSE [fn |-> "traveller_type", args |-> [split |-> split],
           error |-> "none", printed |-> printed,
           shown |-> <<PieFigure(split, traveller_percentages, colors.list),
                       PlotPercentageFigure(TypeCol, RecommendedCol, t, colors2)>>]

ClassValues == {"Business Class", "Economy Class"}

traveller_type ==
  \E split \in ClassValues :
    /\ out' = TravellerTypeCall(split, df)
    /\ df' = df

\* ---------------------------------------------------------- normality_check

\* The statistics library on a degenerate sample: a release either raises
\* ValueError or returns nan with a warning.  `strict` is the release that
\* raises.  stats.shapiro needs three values.
ShapiroRaises(sample, strict) == strict /\ Len(sample) < 3

\* The Shapiro-Wilk result, a function of the sample tested.
Shapiro(sample) == [test |-> "shapiro", sample |-> sample]

\* A 2-D array of axes indexed without flatten(): its length is its rows.
AxesNotFlattened(ver_plots, hor_plots) ==
  IF ver_plots > 1 /\ hor_plots > 1
  THEN [k \in 1..ver_plots |-> <<k - 1, 0>>]
  ELSE [k \in 1..(ver_plots * hor_plots) |->
          <<(k - 1) \div hor_plots, (k - 1) % hor_plots>>]

\* axes of line 38: the grid cells row by row; plt.subplots(1, 1) returns the
\* one cell, which is wrapped in a list.
FlatAxes(ver_plots, hor_plots) ==
  IF ver_plots = 1 /\ hor_plots = 1
  THEN <<<<0, 0>>>>
  ELSE [k \in 1..(ver_plots * hor_plots) |->
          <<(k - 1) \div hor_plots, (k - 1) % hor_plots>>]

Blank == [title |-> <<>>, sample |-> <<>>]

\* One call of normality_check: the loop of lines 40-47 group by group, i
\* counting from 1 here and from 0 in the code, then lines 49-50.
NormalityCheckCall(ver_plots, hor_plots, splitter, feature, t, strict) ==
  LET axes == FlatAxes(ver_plots, hor_plots)
      splits == Unique(Column(t, splitter))
      Step(s, i) ==
        LET sample == Column(BooleanRowFilter(t, splitter, splits[i]).sub, feature)
            printed == Append(s.printed,
                              [feature |-> feature, split |-> splits[i],
                               result |-> Shapiro(sample)])
        IN IF s.error # "none" THEN s
           ELSE IF ShapiroRaises(sample, strict)
                THEN [s EXCEPT !.error = "ValueError"]
           ELSE IF i > Len(axes)
                THEN [s EXCEPT !.printed = printed, !.error = "IndexError"]
           ELSE [s EXCEPT !.printed = printed,
                          !.cells[i] = [title |-> <<"Q-Q plot for", splits[i]>>,
                                        sample |-> sample]]
      Loop[i \in 0..Len(splits)] ==
        IF i = 0
        THEN [printed |-> <<>>, error |-> "none",
              cells |-> [k \in 1..Len(axes) |-> Blank]]
        ELSE Step(Loop[i-1], i)
      end == Loop[Len(splits)]
  IN [fn |-> "normality_check",
      args |-> [ver_plots |-> ver_plots, hor_plots |-> hor_plots,
                splitter |-> splitter, feature |-> feature],
      error |-> end.error,
      printed |-> end.printed,
      shown |-> IF end.error = "none"
                THEN <<[kind |-> "qq", axes |-> axes, cells |-> end.cells]>>
                ELSE <<>>]

normality_check ==
  \E ver_plots \in 1..MaxGrid, hor_plots \in 1..MaxGrid, strict \in BOOLEAN :
    /\ out' = NormalityCheckCall(ver_plots, hor_plots, ClassCol, RatingCol,
                                 df, strict)
    /\ df' = df

\* ------------------------------------------------------------------ kruskal

\* stats.kruskal raising for every number of groups but none.
KruskalRaisesOnNoGroupOnly(samples, strict) == Len(samples) < 1

\* stats.kruskal raises ValueError when it is given fewer than two groups,
\* and a strict release also when all the numbers are identical.
KruskalRaises(samples, strict) ==
  \/ Len(samples) < 2
  \/ /\ strict
     /\ \A i, j \in 1..Len(samples) :
          \A a \in 1..Len(samples[i]), b \in 1..Len(samples[j]) :
            samples[i][a] = samples[j][b]

\* One call of kruskal.
KruskalCall(splitter, feature, t, strict) ==
  LET splits == Unique(Column(t, splitter))
      overall_ratings ==
        [i \in 1..Len(splits) |->
           Column(BooleanRowFilter(t, splitter, splits[i]).sub, feature)]
  IN IF KruskalRaises(overall_ratings, strict)
     THEN [fn |-> "kruskal",
           args |-> [splitter |-> splitter, feature |-> feature],
           error |-> "ValueError", printed |-> <<>>, shown |-> <<>>]
     ELSE [fn |-> "kruskal",
           args |-> [splitter |-> splitter, feature |-> feature],
           error |-> "none",
           printed |-> <<[test |-> "kruskal", samples |-> overall_ratings]>>,
           shown |-> <<>>]

kruskal ==
  \E splitter \in GroupCols, strict \in BOOLEAN :
    /\ out' = KruskalCall(splitter, RatingCol, df, strict)
    /\ df' = df

\* -------------------------------------------------------------- correlation

RECURSIVE GCD(_, _)
GCD(a, b) == IF b = 0 THEN a ELSE GCD(b, a % b)

\* The largest k with k * k <= n, for n in 0..hi*hi, by bisection.
RECURSIVE ISqrtIn(_, _, _)
ISqrtIn(n, lo, hi) ==
  IF lo = hi THEN lo
  ELSE LET mid == (lo + hi + 1) \div 2
       IN IF mid * mid <= n THEN ISqrtIn(n, mid, hi) ELSE ISqrtIn(n, lo, mid - 1)

NaNCoefficient == [nan |-> TRUE, sgn |-> 0, num |-> 0, den |-> 1]

\* The rows DataFrame.dropna() keeps: every listed column is present.
CompleteRows(t, features, x, y) ==
  SelectSeq(t, LAMBDA r : \A k \in 1..Len(features) : r[features[k]] # NaN)

\* The rows DataFrame.corr() uses for the pair (x, y): both cells present,
\* whatever the other listed columns hold.
PairedRows(t, features, x, y) ==
  SelectSeq(t, LAMBDA r : r[x] # NaN /\ r[y] # NaN)

\* Sum of the products of the cells of two columns.
SumProduct(rows, x, y) == Sum([i \in 1..Len(rows) |-> rows[i][x] * rows[i][y]])

\* Pearson's r of columns x and y over `rows`, as DataFrame.corr() has it
\* (min_periods = 1): nan without a row, nan when the divisor
\* sqrt(ssqdm_x * ssqdm_y) is zero, else covxy / divisor.  The value is kept
\* as its sign and its square, a fraction in lowest terms.
Pearson(rows, x, y) ==
  LET n == Len(rows)
      sx == Sum(Column(rows, x))
      sy == Sum(Column(rows, y))
      covxy == n * SumProduct(rows, x, y) - sx * sy
      ssqdm_x == n * SumProduct(rows, x, x) - sx * sx
      ssqdm_y == n * SumProduct(rows, y, y) - sy * sy
      g == GCD(covxy * covxy, ssqdm_x * ssqdm_y)
  IN IF n < 1 THEN NaNCoefficient
     ELSE IF ssqdm_x * ssqdm_y = 0 THEN NaNCoefficient
     ELSE [nan |-> FALSE,
           sgn |-> IF covxy > 0 THEN 1 ELSE IF covxy < 0 THEN -1 ELSE 0,
           num |-> (covxy * covxy) \div g,
           den |-> (ssqdm_x * ssqdm_y) \div g]

\* A matrix whose lower triangle was never written.
CorrUpperOnly(t, features) ==
  [i \in 1..Len(features) |-> [j \in 1..Len(features) |->
     IF i > j THEN NaNCoefficient
     ELSE Pearson(PairedRows(t, features, features[j], features[i]),
                  features[j], features[i])]]

\* df[features].corr(): entry [i][j] by position in the list.  One triangle
\* is computed, x the later and y the earlier column of the pair, and each
\* result is written to [i][j] and to [j][i].
Corr(t, features) ==
  [i \in 1..Len(features) |-> [j \in 1..Len(features) |->
     LET x == features[IF i > j THEN i ELSE j]
         y == features[IF i > j THEN j ELSE i]
     IN Pearson(PairedRows(t, features, x, y), x, y)]]

\* f'{r:.3f}' and fmt='.2f': |r| * scale rounded to the nearest integer, with
\* the sign; nan is printed as nan.
Rounded(r, scale) ==
  IF r.nan THEN [nan |-> TRUE, digits |-> 0]
  ELSE [nan |-> FALSE,
        digits |-> r.sgn * ((ISqrtIn((4 * scale * scale * r.num) \div r.den,
                                     0, 2 * scale) + 1) \div 2)]

\* One call of correlation_coef.
CorrelationCoefCall(feature_a, feature_b, t) ==
  LET correlation == Corr(t, <<feature_a, feature_b>>)[1][2]
  IN [fn |-> "correlation_coef",
      args |-> [feature_a |-> feature_a, feature_b |-> feature_b],
      error |-> "none",
      printed |-> <<[correlation |-> correlation,
                     text |-> Rounded(correlation, 1000)]>>,
      shown |-> <<>>]

\* The heatmap correlation_matrix shows.
HeatmapFigure(features, t) ==
  LET correlation_matrix == Corr(t, features)
  IN [kind |-> "heatmap",
      title |-> <<"Correlation Matrix of Rating Aspects">>,
      labels |-> features,
      matrix |-> correlation_matrix,
      annot |-> [i \in 1..Len(features) |-> [j \in 1..Len(features) |->
                   Rounded(correlation_matrix[i][j], 100)]]]

NumCols == {RatingCol, SeatCol, FoodCol}

\* The column lists the matrix routines are called with.
FeatureLists ==
  {<<RatingCol, SeatCol>>, <<SeatCol, FoodCol, RatingCol>>,
   <<RatingCol, SeatCol, FoodCol>>, <<FoodCol>>}

correlation_coef ==
  \E feature_a \in NumCols, feature_b \in NumCols :
    /\ out' = CorrelationCoefCall(feature_a, feature_b, df)
    /\ df' = df

correlation_matrix ==
  \E features \in FeatureLists :
    /\ out' = [fn |-> "correlation_matrix", args |-> [features |-> features],
               error |-> "none", printed |-> <<>>,
               shown |-> <<HeatmapFigure(features, df)>>]
    /\ df' = df

\* ---------------------------------------------------------------------- eda

\* The box plots plot_combined_boxplot shows: the cells of each listed column.
BoxplotFigure(split, features, t) ==
  [kind |-> "box",
   title |-> <<"Box Plot of Numerical Features for", split>>,
   data |-> [i \in 1..Len(features) |->
               [feature |-> features[i], cells |-> Column(t, features[i])]]]

plot_combined_boxplot ==
  \E split \in ClassValues, features \in FeatureLists :
    /\ out' = [fn |-> "plot_combined_boxplot",
               args |-> [split |-> split, features |-> features],
               error |-> "none", printed |-> <<>>,
               shown |-> <<BoxplotFigure(split, features, df)>>]
    /\ df' = df

\* DataFrame.describe(): the summary of each listed column.
DescribeFrame(t, features) ==
  [i \in 1..Len(features) |->
     [feature |-> features[i], stats |-> Describe(Column(t, features[i]))]]

\* One call of eda: `out` is what it leaves, `table` the caller's table after.
EdaCall(splitter, split, features, t) ==
  LET filtered == BooleanRowFilter(t, splitter, split)
      df_eda == filtered.sub
  IN [table |-> filtered.src,
      out |-> [fn |-> "eda",
               args |-> [splitter |-> splitter, split |-> split,
                         features |-> features],
               error |-> "none",
               printed |-> <<DescribeFrame(df_eda, features)>>,
               shown |-> <<BoxplotFigure(split, features, df_eda),
                           HeatmapFigure(features, df_eda)>>]]

\* The values eda is asked for: the classes of the tables and one that no
\* table holds.
EdaSplits == ClassValues \cup {"First Class"}

\* The column lists eda is called with.
EdaFeatureLists == {<<RatingCol, SeatCol>>, <<SeatCol>>}

eda ==
  \E split \in EdaSplits, features \in EdaFeatureLists :
    LET call == EdaCall(ClassCol, split, features, df)
    IN /\ out' = call.out
       /\ df' = call.table

\* ------------------------------------------------------------ specifications

NoCall == [fn |-> "none", args |-> <<>>, error |-> "none",
           printed |-> <<>>, shown |-> <<>>]

PctRows ==
  {Row("Economy Class", type, rec, 1, 1, 1) :
     type \in {"Business", "Solo Leisure", "Unknown"},
     rec \in {0, 1}}

InitPct ==
  /\ df \in Tables(PctRows, MaxRowsPct)
  /\ out = NoCall

NextPct == plot_percentage \/ traveller_type

SpecPct == InitPct /\ [][NextPct]_vars

StatRows ==
  {Row(class, "Business", 1, rating, 1, 1) :
     class \in {"Business Class", "Economy Class", "First Class"},
     rating \in {1, 2}}

InitStat ==
  /\ df \in Tables(StatRows, MaxRowsStat)
  /\ out = NoCall

NextStat == normality_check \/ kruskal

SpecStat == InitStat /\ [][NextStat]_vars

CorrRows ==
  {Row("Economy Class", "Business", 1, rating, seat, food) :
     rating \in {1, 2}, seat \in {1, 2}, food \in {1, NaN}}

InitCorr ==
  /\ df \in Tables(CorrRows, MaxRowsCorr)
  /\ out = NoCall

NextCorr == correlation_coef \/ correlation_matrix

SpecCorr == InitCorr /\ [][NextCorr]_vars

EdaRows ==
  {Row(class, "Business", 1, rating, seat, 1) :
     class \in ClassValues, rating \in {1, 2}, seat \in {1, NaN}}

InitEda ==
  /\ df \in Tables(EdaRows, MaxRowsEda)
  /\ out = NoCall

NextEda == eda

SpecEda == InitEda /\ [][NextEda]_vars

AllRows ==
  {Row(class, type, 1, 1, 1, 1) :
     class \in ClassValues, type \in {"Business", "Unknown"}}

Init ==
  /\ df \in Tables(AllRows, MaxRowsAll)
  /\ out = NoCall

Next ==
  \/ normality_check
  \/ kruskal
  \/ correlation_coef
  \/ plot_percentage
  \/ correlation_matrix
  \/ plot_combined_boxplot
  \/ eda
  \/ traveller_type

Spec == Init /\ [][Next]_vars

\* ------------------------------------------------- claims on the percentages

\* The distinct values of a column.
ColumnValues(t, col) == {t[i][col] : i \in 1..Len(t)}

\* The rows of one group.
GroupRows(t, col, k) == {i \in 1..Len(t) : t[i][col] = k}

\* The bars of the chart the last plot_percentage call showed.
ShownBars == out.shown[1].bars

NonIncreasing(bars) ==
  \A i, j \in 1..Len(bars) : i < j => ~Greater(bars[j], bars[i])

\* C1: for a table whose grouping column has two distinct values and whose
\* feature column is 0/1, every value plot_percentage computes lies in
\* [0, 100] and the bars are shown in non-increasing order of the value.
C1_PercentInRangeAndNonIncreasing ==
  (out.fn = "plot_percentage"
     /\ Cardinality(ColumnValues(df, out.args.splitter)) = 2)
  => /\ \A i \in 1..Len(ShownBars) :
          /\ ShownBars[i].den > 0
          /\ 0 <= ShownBars[i].num
          /\ ShownBars[i].num <= 100 * ShownBars[i].den
     /\ NonIncreasing(ShownBars)

\* Two groups, the later key with the strictly larger percentage: the sort
\* has moved it to the front.
C1_Witness ==
  /\ out.fn = "plot_percentage"
  /\ Cardinality(ColumnValues(df, out.args.splitter)) = 2
  /\ Len(ShownBars) = 2
  /\ ShownBars[1].label = "Solo Leisure"
  /\ ShownBars[2].label = "Business"
  /\ Greater(ShownBars[1], ShownBars[2])

\* One bar per distinct group, its value 100 * (rows of the group whose
\* feature is 1) / (rows of the group).
OneExactPercentagePerGroup ==
  out.fn = "plot_percentage"
  => LET splitter == out.args.splitter
         feature == out.args.feature
     IN /\ Len(ShownBars) = Cardinality(ColumnValues(df, splitter))
        /\ {ShownBars[i].label : i \in 1..Len(ShownBars)}
             = ColumnValues(df, splitter)
        /\ \A i \in 1..Len(ShownBars) :
             LET rows == GroupRows(df, splitter, ShownBars[i].label)
                 ones == {r \in rows : df[r][feature] = 1}
             IN ShownBars[i].num * Cardinality(rows)
                  = 100 * Cardinality(ones) * ShownBars[i].den

\* Recommended = [1,0,1,1] with Type = [A,A,B,B]; A is "Business" and B is
\* "Solo Leisure".
ExampleTable ==
  <<Row("Economy Class", "Business", 1, 1, 1, 1),
    Row("Economy Class", "Business", 0, 1, 1, 1),
    Row("Economy Class", "Solo Leisure", 1, 1, 1, 1),
    Row("Economy Class", "Solo Leisure", 1, 1, 1, 1)>>

\* The label text of the bar of a group, in tenths of a percent.
BarText(k) ==
  LET i == CHOOSE i \in 1..Len(ShownBars) : ShownBars[i].label = k
  IN ShownBars[i].text

ExampleCall ==
  /\ out.fn = "plot_percentage"
  /\ out.args.splitter = TypeCol
  /\ df = ExampleTable

\* C2 as amended: one value per distinct group, equal to 100 * ones / rows of
\* the group; the example table gives A = 50.0 and B = 100.0.
C2_PercentPerGroup ==
  /\ OneExactPercentagePerGroup
  /\ ExampleCall => (BarText("Business") = 500 /\ BarText("Solo Leisure") = 1000)

\* C2 as stated: the same, with the example giving A = 50.0 and B = 50.0.
C2_AsStated ==
  /\ OneExactPercentagePerGroup
  /\ ExampleCall => (BarText("Business") = 500 /\ BarText("Solo Leisure") = 500)

\* The example table has been plotted by traveller type.
C2_Witness ==
  /\ ExampleCall
  /\ Len(ShownBars) = 2
  /\ ShownBars[1].label = "Solo Leisure"

\* The categories observed in the table that the colour map does not hold.
Unmapped(t) == {k \in ColumnValues(t, TypeCol) : k \notin DOMAIN ColorMap}

\* C5: when an observed traveller type is absent from the colour map,
\* traveller_type ends with the lookup failure and has shown neither the pie
\* chart nor the bar chart.
C5_UnmappedCategoryFails ==
  (out.fn = "traveller_type" /\ Unmapped(df) # {})
  => (out.error = "KeyError" /\ out.shown = <<>>)

\* A table with a mapped and an unmapped category, and the call has failed
\* after printing the statistics.
C5_Witness ==
  /\ out.fn = "traveller_type"
  /\ Unmapped(df) # {}
  /\ ColumnValues(df, TypeCol) \ Unmapped(df) # {}
  /\ out.error = "KeyError"
  /\ Len(out.printed) = 2

\* C10: when every observed category is mapped, each bar of the chart
\* traveller_type hands to plot_percentage has the colour mapped to the bar's
\* own category, the colour of that category's pie slice; the bars are in
\* non-increasing order; the pie and the bars cover the same categories.
C10_BarColoursFollowBars ==
  (out.fn = "traveller_type" /\ Unmapped(df) = {})
  => /\ out.error = "none"
     /\ Len(out.shown) = 2
     /\ LET slices == out.shown[1].slices
            bars == out.shown[2].bars
        IN /\ out.shown[1].kind = "pie"
           /\ out.shown[2].kind = "bar"
           /\ NonIncreasing(bars)
           /\ \A i \in 1..Len(bars) : bars[i].color = ColorMap[bars[i].label]
           /\ \A i \in 1..Len(bars) : \A j \in 1..Len(slices) :
                slices[j].label = bars[i].label => slices[j].color = bars[i].color
           /\ {bars[i].label : i \in 1..Len(bars)} = ColumnValues(df, TypeCol)
           /\ {slices[j].label : j \in 1..Len(slices)} = ColumnValues(df, TypeCol)

\* Two mapped categories with equal percentages, the bar order differing from
\* the pie order.
C10_Witness ==
  /\ out.fn = "traveller_type"
  /\ out.error = "none"
  /\ Len(out.shown[2].bars) = 2
  /\ ~Greater(out.shown[2].bars[1], out.shown[2].bars[2])
  /\ out.shown[2].bars[1].label = "Business"
  /\ out.shown[1].slices[1].label = "Solo Leisure"

\* -------------------------------------------------- claims on the statistics

\* C3: when the grouping column has exactly one distinct value, kruskal ends
\* with the failure of the underlying test and prints nothing.
C3_OneGroupFails ==
  (out.fn = "kruskal" /\ Cardinality(ColumnValues(df, out.args.splitter)) = 1)
  => (out.error = "ValueError" /\ out.printed = <<>>)

\* kruskal has been called on a table of several rows, two ratings, one class.
C3_Witness ==
  /\ out.fn = "kruskal"
  /\ out.args.splitter = ClassCol
  /\ Cardinality(ColumnValues(df, ClassCol)) = 1
  /\ Cardinality(ColumnValues(df, RatingCol)) = 2
  /\ out.error = "ValueError"

\* C4: in normality_check, when no statistics call fails, the out-of-range
\* failure occurs exactly when the distinct groups outnumber
\* ver_plots * hor_plots; otherwise group i, in order of first appearance, is
\* tested and plotted into flattened cell i, and the figure is shown once.
C4_GridCapacity ==
  (out.fn = "normality_check" /\ out.error # "ValueError")
  => LET splits == Unique(Column(df, out.args.splitter))
         capacity == out.args.ver_plots * out.args.hor_plots
     IN /\ (out.error = "IndexError") <=> (Len(splits) > capacity)
        /\ out.error = "none" =>
             /\ Len(out.shown) = 1
             /\ Len(out.printed) = Len(splits)
             /\ Len(out.shown[1].cells) = capacity
             /\ \A i \in 1..Len(splits) :
                  /\ out.printed[i].split = splits[i]
                  /\ out.shown[1].cells[i].title = <<"Q-Q plot for", splits[i]>>
                  /\ out.shown[1].cells[i].sample
                       = Column(SelectSeq(df, LAMBDA r :
                                  r[out.args.splitter] = splits[i]),
                                out.args.feature)
                  /\ out.printed[i].result.sample = out.shown[1].cells[i].sample
             /\ \A i \in (Len(splits) + 1)..capacity :
                  out.shown[1].cells[i] = Blank
        /\ out.error = "IndexError" => out.shown = <<>>

\* Three groups into a 2 x 2 grid: all plotted, one cell left blank.
C4_Witness ==
  /\ out.fn = "normality_check"
  /\ out.args.ver_plots = 2
  /\ out.args.hor_plots = 2
  /\ out.error = "none"
  /\ Cardinality(ColumnValues(df, ClassCol)) = 3
  /\ df[1][ClassCol] = "First Class"
  /\ out.shown[1].cells[1].title = <<"Q-Q plot for", "First Class">>
  /\ out.shown[1].cells[4] = Blank

\* ------------------------------------------------ claims on the correlations

One == [nan |-> FALSE, sgn |-> 1, num |-> 1, den |-> 1]

\* The column has two different present values: its variance is not zero.
ColumnVaries(t, col) ==
  \E i, j \in 1..Len(t) :
    t[i][col] # NaN /\ t[j][col] # NaN /\ t[i][col] # t[j][col]

Symmetric(m) == \A i, j \in 1..Len(m) : m[i][j] = m[j][i]

\* C7 as stated: the matrix correlation_matrix computes is symmetric and has
\* 1.0 on every diagonal entry, also for a column of identical values.
C7_AsStated ==
  out.fn = "correlation_matrix"
  => /\ Symmetric(out.shown[1].matrix)
     /\ \A i \in 1..Len(out.shown[1].matrix) : out.shown[1].matrix[i][i] = One

\* C7 as amended: the matrix is symmetric; a diagonal entry is 1.0 when its
\* column has two different present values and nan when it has not (zero
\* variance, or no value at all).
C7_SymmetricUnitDiagonal ==
  out.fn = "correlation_matrix"
  => LET m == out.shown[1].matrix
         features == out.args.features
     IN /\ Len(m) = Len(features)
        /\ Symmetric(m)
        /\ \A i \in 1..Len(m) :
             m[i][i] = IF ColumnVaries(df, features[i]) THEN One
                       ELSE NaNCoefficient

\* A matrix over three columns: one off-diagonal entry is 0.5, one column has
\* zero variance and nan on its diagonal.
C7_Witness ==
  /\ out.fn = "correlation_matrix"
  /\ out.args.features = <<SeatCol, FoodCol, RatingCol>>
  /\ out.shown[1].matrix[1][3] = [nan |-> FALSE, sgn |-> 1, num |-> 1, den |-> 4]
  /\ out.shown[1].matrix[3][3] = One
  /\ out.shown[1].matrix[2][2] = NaNCoefficient
  /\ \E i \in 1..Len(df) : df[i][FoodCol] # NaN

\* C8: correlation_coef(a, b) yields the coefficient correlation_coef(b, a)
\* yields, and it is the [a][b] entry of the matrix correlation_matrix
\* computes over any column list that holds a and b.
C8_CoefficientSymmetricAndInMatrix ==
  out.fn = "correlation_coef"
  => LET a == out.args.feature_a
         b == out.args.feature_b
         r == out.printed[1]
     IN /\ r = CorrelationCoefCall(b, a, df).printed[1]
        /\ \A features \in FeatureLists :
             \A i, j \in 1..Len(features) :
               (features[i] = a /\ features[j] = b)
               => /\ HeatmapFigure(features, df).matrix[i][j] = r.correlation
                  /\ HeatmapFigure(features, df).matrix[j][i] = r.correlation

\* The coefficient of two columns is -0.5 and printed as -0.500, in a table
\* where a third column misses a cell.
C8_Witness ==
  /\ out.fn = "correlation_coef"
  /\ out.args.feature_a = RatingCol
  /\ out.args.feature_b = SeatCol
  /\ out.printed[1].correlation = [nan |-> FALSE, sgn |-> -1, num |-> 1, den |-> 4]
  /\ out.printed[1].text = [nan |-> FALSE, digits |-> -500]
  /\ \E i \in 1..Len(df) : df[i][FoodCol] = NaN

\* ------------------------------------------------------------- claims on eda

\* The rows of t whose index is in `rows`, in the order of t.
RowsAt(t, rows) ==
  [k \in 1..Cardinality(rows) |->
     t[CHOOSE i \in rows : Cardinality({j \in rows : j <= i}) = k]]

\* C6: eda computes its descriptive statistics over exactly the rows whose
\* grouping column equals the target value, and passes that subset and the
\* same feature list first to plot_combined_boxplot, then to
\* correlation_matrix.
C6_EdaOverFilteredSubset ==
  out.fn = "eda"
  => LET features == out.args.features
         subset == RowsAt(df, {i \in 1..Len(df) :
                                 df[i][out.args.splitter] = out.args.split})
     IN /\ out.error = "none"
        /\ out.printed = <<DescribeFrame(subset, features)>>
        /\ \A i \in 1..Len(features) :
             out.printed[1][i].stats.count
               = Cardinality({k \in 1..Len(subset) : subset[k][features[i]] # NaN})
        /\ out.shown = <<BoxplotFigure(out.args.split, features, subset),
                         HeatmapFigure(features, subset)>>
        /\ \A i \in 1..Len(features) :
             out.shown[1].data[i].cells = Column(subset, features[i])

\* eda on a table of three rows of which it selects two, the first row not
\* among them.
C6_Witness ==
  /\ out.fn = "eda"
  /\ Len(df) = 3
  /\ df[1][ClassCol] # out.args.split
  /\ Len(out.args.features) = 2
  /\ Len(out.shown[1].data[1].cells) = 2
  /\ out.printed[1][1].stats.count = 2
  /\ out.printed[1][2].stats.count = 1

\* ---------------------------------------------------- the table is read-only

\* C9: no call of the eight routines, completing or failing, changes the
\* caller's table.
C9_TableReadOnly == [][df' = df]_vars

\* eda has selected a strict, non-empty subset of a table, which still has
\* all of its rows.
C9_Witness ==
  /\ out.fn = "eda"
  /\ Len(df) = 3
  /\ Len(out.shown[1].data[1].cells) = 1

====
